---- MODULE Spec2Model ----
(***************************************************************************)
(* Model of src/server.js, the Express tile server.                        *)
(*                                                                         *)
(* Strings that the program parses, lower-cases or joins are sequences of  *)
(* one-character strings; fixed messages are plain strings.  The file      *)
(* system (tiles root, public assets root) and the PORT environment        *)
(* variable are inputs chosen in the initial state.  What Express and Node *)
(* do on the program's behalf (static middleware, sendFile, listen,        *)
(* setHeader after the head was written, an exception thrown in an I/O     *)
(* callback) is modelled at the calls the program makes.                   *)
(***************************************************************************)
EXTENDS Integers, Sequences, FiniteSets, TLC

VARIABLES
    envPORT,      \* process.env.PORT: Unset or a string
    proc,         \* "starting" | "running" | "crashed" | "exited"
    listenOn,     \* what app.listen bound: NotListening, a port or a pipe
    tilesDir,     \* <__dirname>/tiles: whether it exists, and its entries
    publicFiles,  \* URL paths for which ./public holds a file
    resp,         \* response to the last introspection request
    rq            \* the tile-route requests, by connection

vars == <<envPORT, proc, listenOn, tilesDir, publicFiles, resp, rq>>

----------------------------------------------------------------------------
(* Bounds *)

MaxPortLen == 5
MaxEntries == 4
MaxReq == 2

----------------------------------------------------------------------------
(* Strings *)

\* process.env.X of a variable that is not set
Unset == <<"undefined">>

\* a JavaScript number that came out of a conversion: NaN or an integer
NaN == [nan |-> TRUE, val |-> 0]
Num(n) == [nan |-> FALSE, val |-> n]
isNaN(v) == v.nan

DecDigits == {"0", "1", "2", "3", "4", "5", "6", "7", "8", "9"}

DigitVal(c) ==
    CASE c = "0" -> 0 [] c = "1" -> 1 [] c = "2" -> 2 [] c = "3" -> 3
      [] c = "4" -> 4 [] c = "5" -> 5 [] c = "6" -> 6 [] c = "7" -> 7
      [] c = "8" -> 8 [] c = "9" -> 9 [] c = "a" -> 10 [] c = "b" -> 11
      [] c = "c" -> 12 [] c = "d" -> 13 [] c = "e" -> 14 [] c = "f" -> 15

DigitChar(d) ==
    CASE d = 0 -> "0" [] d = 1 -> "1" [] d = 2 -> "2" [] d = 3 -> "3"
      [] d = 4 -> "4" [] d = 5 -> "5" [] d = 6 -> "6" [] d = 7 -> "7"
      [] d = 8 -> "8" [] d = 9 -> "9"

IsDigitIn(c, radix) ==
    /\ c \in DecDigits \cup {"a", "b", "c", "d", "e", "f"}
    /\ DigitVal(c) < radix

Drop(s, n) == SubSeq(s, n + 1, Len(s))

BoundedSeqs(S, n) == UNION {[1..k -> S] : k \in 0..n}

\* value of the longest prefix of s made of digits of the radix, as
\* <<value, number of digits consumed>>
RECURSIVE DigitsPrefix(_, _, _, _)
DigitsPrefix(s, radix, acc, used) ==
    IF s # <<>> /\ IsDigitIn(Head(s), radix)
    THEN DigitsPrefix(Tail(s), radix, acc * radix + DigitVal(Head(s)), used + 1)
    ELSE <<acc, used>>

RECURSIVE SkipSpaces(_)
SkipSpaces(s) ==
    IF s # <<>> /\ Head(s) = " " THEN SkipSpaces(Tail(s)) ELSE s

\* parseInt(string) with no radix argument: leading white space, a sign,
\* a 0x prefix selecting radix 16, then the longest run of digits; NaN when
\* there is none.  What follows the digits is ignored.
parseInt(str) ==
    LET t == SkipSpaces(str)
        neg == t # <<>> /\ Head(t) = "-"
        u == IF t # <<>> /\ Head(t) \in {"-", "+"} THEN Tail(t) ELSE t
        hex == Len(u) >= 2 /\ u[1] = "0" /\ u[2] \in {"x", "X"}
        v == IF hex THEN Drop(u, 2) ELSE u
        p == DigitsPrefix(v, IF hex THEN 16 ELSE 10, 0, 0)
    IN IF p[2] = 0 THEN NaN ELSE IF neg THEN Num(0 - p[1]) ELSE Num(p[1])

RECURSIVE NatToString(_)
NatToString(n) ==
    IF n < 10 THEN <<DigitChar(n)>>
    ELSE Append(NatToString(n \div 10), DigitChar(n % 10))

\* Number.prototype.toString() of an integer
toString(n) == IF n < 0 THEN <<"-">> \o NatToString(0 - n) ELSE NatToString(n)

\* Number(string) for strings over digits, letters and "-": an optional
\* sign followed by decimal digits only; anything else is NaN
Number(str) ==
    LET neg == str # <<>> /\ Head(str) = "-"
        u == IF neg THEN Tail(str) ELSE str
        p == DigitsPrefix(u, 10, 0, 0)
    IN IF u = <<>> \/ p[2] # Len(u) THEN NaN
       ELSE IF neg THEN Num(0 - p[1]) ELSE Num(p[1])

----------------------------------------------------------------------------
(* Startup: PORT and app.listen *)

DefaultPort == 3000
MaxLegalPort == 65535

NotListening == [kind |-> "none", port |-> 0, path |-> <<>>]
OnPort(n) == [kind |-> "port", port |-> n, path |-> <<>>]
OnPipe(s) == [kind |-> "pipe", port |-> 0, path |-> s]

PortChars == {"0", "7", "a", "-"}
PortValues == {Unset} \cup BoundedSeqs(PortChars, MaxPortLen)

\* a JavaScript value that is a number or a string
JsNumber(n) == [t |-> "number", n |-> n, s |-> <<>>]
JsString(s) == [t |-> "string", n |-> 0, s |-> s]

\* PORT falling back to 3000 for every value that is no number as well
PORT_numericOrDefault ==
    IF envPORT = Unset \/ isNaN(Number(envPORT)) THEN JsNumber(DefaultPort)
    ELSE JsString(envPORT)

\* const PORT = process.env.PORT || 3000: undefined and "" are falsy
PORT ==
    IF envPORT = Unset \/ envPORT = <<>> THEN JsNumber(DefaultPort)
    ELSE JsString(envPORT)

\* net's toNumber(x): (x = Number(x)) >= 0 ? x : false; a string for which
\* it is false is a pipe name
isPipeName(p) ==
    /\ p.t = "string"
    /\ (isNaN(Number(p.s)) \/ Number(p.s).val < 0)

portNumber(p) == IF p.t = "number" THEN p.n ELSE Number(p.s).val

\* app.listen(PORT, cb) with a legal port
ListenPort ==
    /\ proc = "starting"
    /\ ~isPipeName(PORT)
    /\ portNumber(PORT) <= MaxLegalPort
    /\ proc' = "running"
    /\ listenOn' = OnPort(portNumber(PORT))
    /\ UNCHANGED <<envPORT, tilesDir, publicFiles, resp, rq>>

\* app.listen(PORT, cb) with a string that is no number: a pipe of that name
ListenPipe ==
    /\ proc = "starting"
    /\ isPipeName(PORT)
    /\ proc' = "running"
    /\ listenOn' = OnPipe(PORT.s)
    /\ UNCHANGED <<envPORT, tilesDir, publicFiles, resp, rq>>

\* app.listen(PORT, cb) with a number out of range: listen throws
\* ERR_SOCKET_BAD_PORT at module level and the process dies
ListenThrows ==
    /\ proc = "starting"
    /\ ~isPipeName(PORT)
    /\ portNumber(PORT) > MaxLegalPort
    /\ proc' = "crashed"
    /\ UNCHANGED <<envPORT, listenOn, tilesDir, publicFiles, resp, rq>>

\* process.on('SIGINT' | 'SIGTERM'): process.exit(0)
Shutdown ==
    /\ proc = "running"
    /\ proc' = "exited"
    /\ listenOn' = NotListening
    /\ UNCHANGED <<envPORT, tilesDir, publicFiles, resp, rq>>


NoResp == [route |-> "none", servedBy |-> "none", status |-> 0]

----------------------------------------------------------------------------
(* The file system under <__dirname>/tiles and ./public *)

\* a directory entry: a regular file with its bytes, a directory with its
\* own entries (in the order readdir lists them), or a dangling symbolic
\* link, which readdir lists and stat fails on
File(name, bytes) == [name |-> name, kind |-> "file", sub |-> <<>>, bytes |-> bytes]
Dir(name, sub) == [name |-> name, kind |-> "dir", sub |-> sub, bytes |-> 0]
Dangling(name) == [name |-> name, kind |-> "dangling", sub |-> <<>>, bytes |-> 0]

Directory(entries) == [exists |-> TRUE, entries |-> entries]
NoDirectory == [exists |-> FALSE, entries |-> <<>>]

Names(entries) == [i \in 1..Len(entries) |-> entries[i].name]

HasEntry(entries, name) == \E i \in 1..Len(entries) : entries[i].name = name
Entry(entries, name) ==
    entries[CHOOSE i \in 1..Len(entries) : entries[i].name = name]

\* fs.readdirSync(<dir>/<name>): the names, or a throw when <dir>/<name> is
\* no directory
readdirSync(dir, name) ==
    IF dir.exists /\ HasEntry(dir.entries, name)
       /\ Entry(dir.entries, name).kind = "dir"
    THEN [threw |-> FALSE, names |-> Names(Entry(dir.entries, name).sub)]
    ELSE [threw |-> TRUE, names |-> <<>>]

\* fs.statSync(<entries>/<item>) throws for a dangling link
statThrows(entries, item) == Entry(entries, item).kind = "dangling"
isDirectory(entries, item) == Entry(entries, item).kind = "dir"

\* express.static('public'), registered before every route: a GET whose
\* path names a file under ./public is answered with that file, and GET /
\* with ./public/index.html; any other request goes on to the routes
IndexHtml == <<"index.html">>
staticServes(urlPath) ==
    IF urlPath = <<>> THEN <<IndexHtml>> \in publicFiles
    ELSE urlPath \in publicFiles

StaticResponse(route, urlPath) ==
    [route |-> route, servedBy |-> "static", status |-> 200,
     body |-> [file |-> IF urlPath = <<>> THEN <<IndexHtml>> ELSE urlPath]]

----------------------------------------------------------------------------
(* Introspection routes *)

RECURSIVE Insert(_, _)
Insert(sorted, n) ==
    IF sorted = <<>> THEN <<n>>
    ELSE IF n < Head(sorted) THEN <<n>> \o sorted
    ELSE <<Head(sorted)>> \o Insert(Tail(sorted), n)

\* Array.prototype.sort((a, b) => a - b)
RECURSIVE sortAscending(_)
sortAscending(a) ==
    IF a = <<>> THEN <<>>
    ELSE Insert(sortAscending(SubSeq(a, 1, Len(a) - 1)), a[Len(a)])

Map(a, Op(_)) == [i \in 1..Len(a) |-> Op(a[i])]

\* the chain without the comparator's sort
levelsOf_unsorted(entries) ==
    LET dirs == SelectSeq(Names(entries), LAMBDA item : isDirectory(entries, item))
        parsed == Map(dirs, parseInt)
        numbers == SelectSeq(parsed, LAMBDA level : ~isNaN(level))
    IN Map(numbers, LAMBDA level : level.val)

\* the chain readdirSync.filter(isDirectory).map(parseInt).filter(!isNaN).sort
levelsOf(entries) ==
    LET dirs == SelectSeq(Names(entries), LAMBDA item : isDirectory(entries, item))
        parsed == Map(dirs, parseInt)
        numbers == SelectSeq(parsed, LAMBDA level : ~isNaN(level))
    IN sortAscending(Map(numbers, LAMBDA level : level.val))

\* function getAvailableZoomLevels(): the try block, and [] from the catch
\* when readdirSync or one of the statSync calls throws
getAvailableZoomLevels ==
    IF ~tilesDir.exists THEN <<>>
    ELSE IF \E i \in 1..Len(tilesDir.entries) :
                statThrows(tilesDir.entries, tilesDir.entries[i].name)
    THEN <<>>
    ELSE levelsOf(tilesDir.entries)

CannotRead == [error |-> "Cannot read directory"]

\* the forEach body without the isDirectory filter
structureOf_allEntries(level) ==
    LET listing == readdirSync(tilesDir, toString(level))
        levelDir == Entry(tilesDir.entries, toString(level)).sub
    IN IF listing.threw THEN CannotRead
       ELSE IF \E i \in 1..Len(listing.names) : statThrows(levelDir, listing.names[i])
       THEN CannotRead
       ELSE [x_directories |-> Len(listing.names), sample_x_dirs |-> listing.names]

\* the body of info.available_levels.forEach for one level
structureOf(level) ==
    LET listing == readdirSync(tilesDir, toString(level))
        levelDir == Entry(tilesDir.entries, toString(level)).sub
    IN IF listing.threw THEN CannotRead
       ELSE IF \E i \in 1..Len(listing.names) : statThrows(levelDir, listing.names[i])
       THEN CannotRead
       ELSE LET xDirs == SelectSeq(listing.names,
                                   LAMBDA item : isDirectory(levelDir, item))
            IN [x_directories |-> Len(xDirs), sample_x_dirs |-> xDirs]

Range(a) == {a[i] : i \in 1..Len(a)}

tilesInfo ==
    LET levels == getAvailableZoomLevels
    IN [tiles_directory |-> "<__dirname>/tiles",
        available_levels |-> levels,
        structure |-> [level \in Range(levels) |-> structureOf(level)]]

serviceInfo ==
    [name |-> "Local Tile Server",
     version |-> "1.0.0",
     description |-> "Serving tiles from tiles/18 directory",
     usage |-> [port |-> PORT,
                supported_formats |-> <<"png", "jpg", "jpeg", "webp">>],
     available_zoom_levels |-> getAvailableZoomLevels]

TilesInfoPath == <<"tiles-info">>

\* GET /: the static middleware, then app.get('/')
GetRoot ==
    /\ proc = "running"
    /\ resp' = IF staticServes(<<>>) THEN StaticResponse("/", <<>>)
               ELSE [route |-> "/", servedBy |-> "route", status |-> 200,
                     body |-> serviceInfo]
    /\ UNCHANGED <<envPORT, proc, listenOn, tilesDir, publicFiles, rq>>

\* GET /tiles-info: the static middleware, then app.get('/tiles-info')
GetTilesInfo ==
    /\ proc = "running"
    /\ resp' = IF staticServes(<<TilesInfoPath>>)
               THEN StaticResponse("/tiles-info", <<TilesInfoPath>>)
               ELSE [route |-> "/tiles-info", servedBy |-> "route",
                     status |-> 200, body |-> tilesInfo]
    /\ UNCHANGED <<envPORT, proc, listenOn, tilesDir, publicFiles, rq>>

\* the tiles roots the introspection routes are run on: up to MaxEntries of
\* these names, each a file, a dangling link or a directory
n018 == <<"0", "1", "8">>
n17 == <<"1", "7">>
n18 == <<"1", "8">>
n18abc == <<"1", "8", "a", "b", "c">>
n20 == <<"2", "0">>
nabc == <<"a", "b", "c">>
RootNames == <<n018, n17, n18, n18abc, n20, nabc>>

x1 == <<"1">>
x2 == <<"2">>
LevelListings ==
    {<<Dir(x1, <<>>), File(<<"r">>, 0), Dir(x2, <<>>)>>,
     <<Dir(x1, <<>>), Dangling(<<"l">>)>>}

EntriesNamed(name) ==
    {File(name, 0), Dangling(name)} \cup {Dir(name, sub) : sub \in LevelListings}

TilesRoots ==
    {NoDirectory} \cup
    {Directory(SelectSeq([i \in 1..Len(RootNames) |->
                              IF RootNames[i] \in DOMAIN f THEN f[RootNames[i]]
                              ELSE File(<<>>, 0)],
                         LAMBDA e : e.name # <<>>)) :
        f \in UNION {{g \in [S -> UNION {EntriesNamed(n) : n \in S}] :
                         \A n \in S : g[n].name = n} :
                     S \in {T \in SUBSET Range(RootNames) :
                               Cardinality(T) <= MaxEntries}}}

----------------------------------------------------------------------------
(* The tile route: app.get('/:z/:x/:y.:format') *)

LowerChar(c) ==
    CASE c = "P" -> "p" [] c = "N" -> "n" [] c = "G" -> "g" [] OTHER -> c

\* String.prototype.toLowerCase
toLowerCase(str) == [i \in 1..Len(str) |-> LowerChar(str[i])]

png == <<"p", "n", "g">>
jpg == <<"j", "p", "g">>
jpeg == <<"j", "p", "e", "g">>
webp == <<"w", "e", "b", "p">>
pbf == <<"p", "b", "f">>
PNG == <<"P", "N", "G">>
xyz == <<"x", "y", "z">>
constructor == <<"c", "o", "n", "s", "t", "r", "u", "c", "t", "o", "r">>

\* the result of a property lookup
Undefined == [defined |-> FALSE, value |-> "undefined"]
Value(v) == [defined |-> TRUE, value |-> v]

\* the object literal  const types = {...}
types ==
    [f \in {png, jpg, jpeg, webp, pbf} |->
        CASE f = png -> "image/png"
          [] f = jpg -> "image/jpeg"
          [] f = jpeg -> "image/jpeg"
          [] f = webp -> "image/webp"
          [] f = pbf -> "application/x-protobuf"]

\* what an object literal inherits from Object.prototype
ObjectPrototype ==
    [k \in {constructor, <<"_", "_", "p", "r", "o", "t", "o", "_", "_">>} |->
        IF k = constructor THEN "function Object() { [native code] }"
        ELSE "[object Object]"]

\* getContentType with image/jpg written for jpg
getContentType_jpgTypo(format) ==
    LET key == toLowerCase(format)
    IN IF key = jpg THEN Value("image/jpg")
       ELSE IF key \in DOMAIN types THEN Value(types[key])
       ELSE IF key \in DOMAIN ObjectPrototype THEN Value(ObjectPrototype[key])
       ELSE Undefined

\* function getContentType(format): types[format.toLowerCase()], a lookup
\* that goes on to the prototype when the object has no such key of its own
getContentType(format) ==
    LET key == toLowerCase(format)
    IN IF key \in DOMAIN types THEN Value(types[key])
       ELSE IF key \in DOMAIN ObjectPrototype THEN Value(ObjectPrototype[key])
       ELSE Undefined

\* the path with x and y exchanged
pathString_yx(p) == p.z \o <<"/">> \o p.y \o <<"/">> \o p.x \o <<".">> \o p.format

\* `${z}/${x}/${y}.${format}`
pathString(p) == p.z \o <<"/">> \o p.x \o <<"/">> \o p.y \o <<".">> \o p.format

\* the segments below <__dirname>/tiles of
\* path.join(__dirname, 'tiles', z, x, `${y}.${format}`)
tilePath(p) == <<p.z, p.x, p.y \o <<".">> \o p.format>>

\* the entry a path leads to, through directories only
RECURSIVE Resolve(_, _)
Resolve(entries, path) ==
    IF ~HasEntry(entries, Head(path)) THEN Dangling(<<>>)
    ELSE LET e == Entry(entries, Head(path))
         IN IF Len(path) = 1 THEN e
            ELSE IF e.kind = "dir" THEN Resolve(e.sub, Tail(path))
            ELSE Dangling(<<>>)

\* fs.access(tilePath, F_OK, cb): err when nothing is at the path
accessFails(path) ==
    \/ ~tilesDir.exists
    \/ Resolve(tilesDir.entries, path).kind = "dangling"

NotFoundBody(p) == [error |-> "Tile not found", path |-> pathString(p)]
ServingErrorBody == [error |-> "Error serving tile"]
TileCacheControl == "public, max-age=3600"

NoParams == [z |-> <<>>, x |-> <<>>, y |-> <<>>, format |-> <<>>]
NoBody == [none |-> TRUE]

\* a request and its response object
\*   statusCode, contentType, cacheControl: what res holds
\*   headersSent, sentStatus: the head as it went out on the socket
\*   transfers: how often sendFile was called; failure: how the transfer
\*   failed; lateWrite: res.json was called after the head went out
Idle ==
    [pc |-> "idle", params |-> NoParams, servedBy |-> "none",
     statusCode |-> 200, contentType |-> Undefined, ctByHandler |-> FALSE,
     cacheControl |-> "none", headersSent |-> FALSE, sentStatus |-> 0,
     heads |-> 0, body |-> NoBody, transfers |-> 0, failure |-> "none",
     lateWrite |-> FALSE]

\* the requests the tile route is run on
y1 == <<"1">>
y2 == <<"2">>
y3 == <<"3">>
n19 == <<"1", "9">>
Formats == {png, jpg, jpeg, webp, pbf, PNG, xyz, constructor}
TileRequests ==
    {[z |-> n18, x |-> x1, y |-> y1, format |-> f] : f \in Formats}
    \cup {[z |-> n19, x |-> x1, y |-> y1, format |-> png],
          [z |-> n18, x |-> x1, y |-> y2, format |-> jpg],
          [z |-> n18, x |-> x1, y |-> y3, format |-> png]}

\* the stored bytes of <tiles>/18/1/1.<format>, one value per file
BytesOf(f) ==
    CASE f = png -> 1 [] f = jpg -> 2 [] f = jpeg -> 3 [] f = webp -> 4
      [] f = pbf -> 5 [] f = PNG -> 6 [] f = xyz -> 7 [] f = constructor -> 8

FormatOrder == <<png, jpg, jpeg, webp, pbf, PNG, xyz, constructor>>

\* <tiles>/18/1 holds 1.<format> for every format, and a directory 3.png
TileTree ==
    Directory(<<Dir(n18,
                    <<Dir(x1, [i \in 1..Len(FormatOrder) |->
                                  File(y1 \o <<".">> \o FormatOrder[i],
                                       BytesOf(FormatOrder[i]))]
                              \o <<Dir(y3 \o <<".">> \o png, <<>>)>>)>>)>>)

\* a request arrives: the static middleware answers it from ./public, or
\* the route handler builds tilePath and calls fs.access
Receive(i) ==
    /\ proc = "running"
    /\ rq[i].pc = "idle"
    /\ \E p \in TileRequests :
          rq' = [rq EXCEPT ![i] =
                    IF staticServes(tilePath(p))
                    THEN [@ EXCEPT !.pc = "done", !.params = p,
                                   !.servedBy = "static",
                                   !.cacheControl = "public, max-age=0",
                                   !.headersSent = TRUE, !.sentStatus = 200,
                                   !.heads = 1,
                                   !.body = [publicFile |-> tilePath(p)]]
                    ELSE [@ EXCEPT !.pc = "access", !.params = p,
                                   !.servedBy = "route"]]
    /\ UNCHANGED <<envPORT, proc, listenOn, tilesDir, publicFiles, resp>>

\* the fs.access callback with err: res.status(404).json(...)
AccessFailed(i) ==
    /\ proc = "running"
    /\ rq[i].pc = "access"
    /\ accessFails(tilePath(rq[i].params))
    /\ rq' = [rq EXCEPT ![i] =
                 [@ EXCEPT !.pc = "done", !.statusCode = 404,
                           !.contentType = Value("application/json"),
                           !.headersSent = TRUE, !.sentStatus = 404,
                           !.heads = 1,
                           !.body = NotFoundBody(rq[i].params)]]
    /\ UNCHANGED <<envPORT, proc, listenOn, tilesDir, publicFiles, resp>>

\* the fs.access callback without err: Content-Type when getContentType
\* gave something truthy, Cache-Control, res.sendFile(tilePath, cb)
AccessOk(i) ==
    /\ proc = "running"
    /\ rq[i].pc = "access"
    /\ ~accessFails(tilePath(rq[i].params))
    /\ LET contentType == getContentType(rq[i].params.format)
       IN rq' = [rq EXCEPT ![i] =
                    [@ EXCEPT !.pc = "sendFile",
                              !.contentType = contentType,
                              !.ctByHandler = contentType.defined,
                              !.cacheControl = TileCacheControl,
                              !.transfers = @ + 1]]
    /\ UNCHANGED <<envPORT, proc, listenOn, tilesDir, publicFiles, resp>>

\* sendFile, given a regular file, writes the head: res.statusCode, the
\* headers set so far, and a Content-Type of the transport's choosing when
\* none was set
SendHead(i) ==
    /\ proc = "running"
    /\ rq[i].pc = "sendFile"
    /\ Resolve(tilesDir.entries, tilePath(rq[i].params)).kind = "file"
    /\ rq' = [rq EXCEPT ![i] =
                 [@ EXCEPT !.pc = "streaming",
                           !.contentType =
                               IF @.defined THEN @ ELSE Value("transport default"),
                           !.headersSent = TRUE,
                           !.sentStatus = rq[i].statusCode,
                           !.heads = @ + 1]]
    /\ UNCHANGED <<envPORT, proc, listenOn, tilesDir, publicFiles, resp>>

\* sendFile fails before the head is written (the file cannot be opened,
\* is a directory, went away): cb(err) runs res.status(500).json(...),
\* which keeps a Content-Type that is already set
SendFileError(i) ==
    /\ proc = "running"
    /\ rq[i].pc = "sendFile"
    /\ rq' = [rq EXCEPT ![i] =
                 [@ EXCEPT !.pc = "done", !.failure = "io",
                           !.statusCode = 500,
                           !.contentType =
                               IF @.defined THEN @ ELSE Value("application/json"),
                           !.headersSent = TRUE, !.sentStatus = 500,
                           !.heads = @ + 1,
                           !.body = ServingErrorBody]]
    /\ UNCHANGED <<envPORT, proc, listenOn, tilesDir, publicFiles, resp>>

\* the whole file went out: cb() without err does nothing
StreamComplete(i) ==
    /\ proc = "running"
    /\ rq[i].pc = "streaming"
    /\ rq' = [rq EXCEPT ![i] =
                 [@ EXCEPT !.pc = "done",
                           !.body =
                               [bytes |-> Resolve(tilesDir.entries,
                                                  tilePath(rq[i].params)).bytes]]]
    /\ UNCHANGED <<envPORT, proc, listenOn, tilesDir, publicFiles, resp>>

\* cb(err) after the head went out: res.status(500) assigns statusCode,
\* res.json(...) sets a header and Node throws ERR_HTTP_HEADERS_SENT; the
\* throw is in an I/O callback, nothing catches it, the process dies
lateError(i, cause) ==
    /\ rq' = [rq EXCEPT ![i] =
                 [@ EXCEPT !.pc = "torn", !.failure = cause,
                           !.statusCode = 500, !.lateWrite = TRUE]]
    /\ proc' = "crashed"

\* a read error while the file is streamed
StreamError(i) ==
    /\ proc = "running"
    /\ rq[i].pc = "streaming"
    /\ lateError(i, "io")
    /\ UNCHANGED <<envPORT, listenOn, tilesDir, publicFiles, resp>>

\* the client closes the connection while the file is streamed: sendFile
\* calls cb with ECONNABORTED
ClientDisconnect(i) ==
    /\ proc = "running"
    /\ rq[i].pc = "streaming"
    /\ lateError(i, "aborted")
    /\ UNCHANGED <<envPORT, listenOn, tilesDir, publicFiles, resp>>

NoRequests == [i \in 1..MaxReq |-> Idle]

InitBoot ==
    /\ envPORT \in PortValues
    /\ proc = "starting"
    /\ listenOn = NotListening
    /\ tilesDir = NoDirectory
    /\ publicFiles = {}
    /\ resp = NoResp
    /\ rq = NoRequests

NextBoot == ListenPort \/ ListenPipe \/ ListenThrows \/ Shutdown

SpecBoot == InitBoot /\ [][NextBoot]_vars

InitInfo ==
    /\ envPORT = Unset
    /\ proc = "running"
    /\ listenOn = OnPort(DefaultPort)
    /\ tilesDir \in TilesRoots
    /\ publicFiles \in SUBSET {<<IndexHtml>>, <<TilesInfoPath>>}
    /\ resp = NoResp
    /\ rq = NoRequests

NextInfo == GetRoot \/ GetTilesInfo

SpecInfo == InitInfo /\ [][NextInfo]_vars

ShadowedPaths ==
    {tilePath([z |-> n18, x |-> x1, y |-> y1, format |-> png]),
     tilePath([z |-> n19, x |-> x1, y |-> y1, format |-> png])}

Init ==
    /\ envPORT = Unset
    /\ proc = "running"
    /\ listenOn = OnPort(DefaultPort)
    /\ tilesDir = TileTree
    /\ publicFiles \in SUBSET ShadowedPaths
    /\ resp = NoResp
    /\ rq = NoRequests

Next ==
    \E i \in 1..MaxReq :
        \/ Receive(i)
        \/ AccessFailed(i)
        \/ AccessOk(i)
        \/ SendHead(i)
        \/ SendFileError(i)
        \/ StreamComplete(i)
        \/ StreamError(i)
        \/ ClientDisconnect(i)

Spec == Init /\ [][Next]_vars

----------------------------------------------------------------------------
(* Properties of startup, checked under SpecBoot *)

\* a PORT value that names a legal TCP port: decimal digits only, at most 65535
ValidPortString(s) ==
    /\ s # Unset
    /\ s # <<>>
    /\ \A i \in 1..Len(s) : s[i] \in DecDigits
    /\ DigitsPrefix(s, 10, 0, 0)[1] <= MaxLegalPort

Started == proc \in {"running", "crashed"}

\* C9 as stated: the server listens on PORT's value when PORT is a valid
\* port, and on 3000 when PORT is unset or invalid (empty, non-numeric or
\* out of range).
C9_DefaultWhenUnsetOrInvalid ==
    Started =>
        /\ proc = "running"
        /\ listenOn = OnPort(IF ValidPortString(envPORT)
                             THEN DigitsPrefix(envPORT, 10, 0, 0)[1]
                             ELSE DefaultPort)

\* C9 amended: the server listens on PORT's value when PORT is a valid port
\* and on 3000 when PORT is unset or empty; for any other value 3000 is not
\* substituted: the value goes to listen as it is, which binds a pipe of
\* that name, binds the port the value converts to, or throws.
C9_DefaultOnlyWhenUnsetOrEmpty ==
    Started =>
        /\ ValidPortString(envPORT) =>
              /\ proc = "running"
              /\ listenOn = OnPort(DigitsPrefix(envPORT, 10, 0, 0)[1])
        /\ envPORT \in {Unset, <<>>} =>
              /\ proc = "running"
              /\ listenOn = OnPort(DefaultPort)
        /\ (~ValidPortString(envPORT) /\ envPORT \notin {Unset, <<>>}) =>
              /\ listenOn # OnPort(DefaultPort)
              /\ \/ proc = "running" /\ listenOn = OnPipe(envPORT)
                 \/ proc = "running" /\ listenOn.kind = "port"
                    /\ Number(envPORT) = Num(0 - listenOn.port)
                 \/ proc = "crashed" /\ listenOn = NotListening

\* a non-numeric PORT was given and the server came up on a pipe of that name
C9_Witness ==
    /\ proc = "running"
    /\ envPORT = <<"7", "a">>
    /\ listenOn = OnPipe(<<"7", "a">>)

----------------------------------------------------------------------------
(* Properties of the introspection routes, checked under SpecInfo *)

IsSorted(a) == \A i, j \in 1..Len(a) : i < j => a[i] <= a[j]

Count(a, n) == Cardinality({i \in 1..Len(a) : a[i] = n})

\* a name that is an integer: an optional minus sign and decimal digits
IsIntegerName(s) ==
    LET u == IF s # <<>> /\ Head(s) = "-" THEN Tail(s) ELSE s
    IN u # <<>> /\ \A i \in 1..Len(u) : u[i] \in DecDigits

IntegerNamed(s) ==
    IF Head(s) = "-" THEN 0 - DigitsPrefix(Tail(s), 10, 0, 0)[1]
    ELSE DigitsPrefix(s, 10, 0, 0)[1]

RootDirs == {i \in 1..Len(tilesDir.entries) : tilesDir.entries[i].kind = "dir"}

RootReadFails ==
    \/ ~tilesDir.exists
    \/ \E i \in 1..Len(tilesDir.entries) : tilesDir.entries[i].kind = "dangling"

\* the zoom levels a route answered with
AnsweredLevels ==
    IF resp.route = "/" THEN resp.body.available_zoom_levels
    ELSE resp.body.available_levels

\* C6 as stated: the enumeration is in ascending order and holds an integer
\* n if and only if some directory of the tiles root has a name that is an
\* integer equal to n.
C6_ExactlyIntegerNamedDirs ==
    resp.servedBy = "route" =>
        /\ IsSorted(AnsweredLevels)
        /\ \A n \in Range(AnsweredLevels) \cup
                    {IntegerNamed(tilesDir.entries[i].name) :
                        i \in {j \in RootDirs :
                                  IsIntegerName(tilesDir.entries[j].name)}} :
              n \in Range(AnsweredLevels) <=>
                 \E i \in RootDirs :
                    /\ IsIntegerName(tilesDir.entries[i].name)
                    /\ IntegerNamed(tilesDir.entries[i].name) = n

\* the enumeration as the code computes it: sorted, and each integer as
\* often as there are directories whose name parseInt turns into it
IsLiveEnumeration(levels) ==
    IF RootReadFails THEN levels = <<>>
    ELSE /\ IsSorted(levels)
         /\ Len(levels) =
               Cardinality({i \in RootDirs :
                               ~isNaN(parseInt(tilesDir.entries[i].name))})
         /\ \A n \in Range(levels) :
               Count(levels, n) =
                  Cardinality({i \in RootDirs :
                                  parseInt(tilesDir.entries[i].name) = Num(n)})

LevelIsDir(level) ==
    /\ tilesDir.exists
    /\ \E i \in RootDirs : tilesDir.entries[i].name = toString(level)

LevelEntries(level) ==
    tilesDir.entries[CHOOSE i \in RootDirs :
                        tilesDir.entries[i].name = toString(level)].sub

SubDirs(entries) == {i \in 1..Len(entries) : entries[i].kind = "dir"}

ListsSubDirs(entry, entries) ==
    /\ DOMAIN entry = {"x_directories", "sample_x_dirs"}
    /\ entry.x_directories = Cardinality(SubDirs(entries))
    /\ entry.x_directories = Len(entry.sample_x_dirs)
    /\ Range(entry.sample_x_dirs) = {entries[i].name : i \in SubDirs(entries)}

----------------------------------------------------------------------------
(* Properties of the tile route, checked under Spec *)

Requests == 1..MaxReq

KnownFormats == {png, jpg, jpeg, webp, pbf}

\* the Content-Type the fixed table gives
TableType(f) ==
    CASE f \in {png} -> "image/png"
      [] f \in {jpg, jpeg} -> "image/jpeg"
      [] f \in {webp} -> "image/webp"
      [] f \in {pbf} -> "application/x-protobuf"

\* a regular file is stored at <tiles>/<z>/<x>/<y>.<format>
TileFileExists(p) ==
    /\ tilesDir.exists
    /\ \E a \in 1..Len(tilesDir.entries) :
          /\ tilesDir.entries[a].name = p.z /\ tilesDir.entries[a].kind = "dir"
          /\ \E b \in 1..Len(tilesDir.entries[a].sub) :
                LET xDir == tilesDir.entries[a].sub[b]
                IN /\ xDir.name = p.x /\ xDir.kind = "dir"
                   /\ \E c \in 1..Len(xDir.sub) :
                         /\ xDir.sub[c].name = p.y \o <<".">> \o p.format
                         /\ xDir.sub[c].kind = "file"

\* a directory is at <tiles>/<z>/<x>/<y>.<format>
TileDirExists(p) ==
    /\ tilesDir.exists
    /\ \E a \in 1..Len(tilesDir.entries) :
          /\ tilesDir.entries[a].name = p.z /\ tilesDir.entries[a].kind = "dir"
          /\ \E b \in 1..Len(tilesDir.entries[a].sub) :
                LET xDir == tilesDir.entries[a].sub[b]
                IN /\ xDir.name = p.x /\ xDir.kind = "dir"
                   /\ \E c \in 1..Len(xDir.sub) :
                         /\ xDir.sub[c].name = p.y \o <<".">> \o p.format
                         /\ xDir.sub[c].kind = "dir"

StoredBytes(p) ==
    LET zDir == Entry(tilesDir.entries, p.z).sub
        xDir == Entry(zDir, p.x).sub
    IN Entry(xDir, p.y \o <<".">> \o p.format).bytes

IsTileResponse(r) ==
    /\ r.sentStatus = 200
    /\ r.body = [bytes |-> StoredBytes(r.params)]
    /\ r.contentType = Value(TableType(r.params.format))
    /\ r.cacheControl = "public, max-age=3600"

IsNotFoundResponse(r) ==
    /\ r.sentStatus = 404
    /\ r.body = [error |-> "Tile not found",
                 path |-> r.params.z \o <<"/">> \o r.params.x \o <<"/">>
                          \o r.params.y \o <<".">> \o r.params.format]
    /\ r.transfers = 0

C3_UnknownFormatNoContentType ==
    \A i \in Requests :
        (/\ rq[i].servedBy = "route"
         /\ rq[i].pc \in {"sendFile", "streaming", "done"}
         /\ TileFileExists(rq[i].params)
         /\ toLowerCase(rq[i].params.format) \notin KnownFormats)
        => /\ ~rq[i].ctByHandler
           /\ (rq[i].pc = "done" /\ rq[i].failure = "none")
                 => rq[i].sentStatus = 200

\* C4 as stated: a transmission that fails after the existence check, at
\* any point of the transfer, ends with 500 and {error: "Error serving
\* tile"}, and is not retried.
C4_TransmissionFailureIs500 ==
    \A i \in Requests :
        rq[i].failure = "io"
        => /\ rq[i].pc = "done"
           /\ rq[i].sentStatus = 500
           /\ rq[i].body = ServingErrorBody
           /\ rq[i].transfers = 1

\* C5 as stated: a client disconnecting during a transmission never leads
\* to a state in which the process has terminated, or in which another
\* request in flight cannot get its response.
C5_DisconnectKeepsProcessRunning ==
    (\E i \in Requests : rq[i].failure = "aborted")
    => /\ proc = "running"
       /\ \A j \in Requests : rq[j].pc # "torn"

\* C10 as stated (its safety part): a tile request writes a head at most
\* once and never writes a status or body after the head went out.
C10_SingleResponse ==
    \A i \in Requests :
        /\ rq[i].heads <= 1
        /\ ~rq[i].lateWrite
        /\ rq[i].headersSent => rq[i].sentStatus = rq[i].statusCode

====
